---- MODULE Spec2Model ----
(***************************************************************************)
(* Task list manager: the Task / DeadlineTask model, the JSON-backed        *)
(* TaskRepository + TaskService, and the in-memory TaskController.         *)
(*                                                                         *)
(* Text (titles, descriptions, due strings) is a sequence of characters or *)
(* tokens so that str.strip() is computed, not assumed.  An absent         *)
(* (Python None) argument is a sentinel of the argument's type.  A         *)
(* datetime is an integer number of clock ticks; strftime(ISO_FMT) keeps   *)
(* whole seconds only.                                                     *)
(***************************************************************************)
EXTENDS Integers, Sequences, FiniteSets, TLC

VARIABLES
    impl,       \* which stack the caller drives: "service" or "controller"
    file,       \* TaskRepository: the JSON document, a list of dicts
    tasks,      \* TaskController._tasks, in dict insertion order
    next_id,    \* TaskController._next_id
    now,        \* the wall clock, in ticks; one tick passes per call
    result,     \* the last call and what it returned or raised
    assigned,   \* history: the ids create has handed out so far
    creating    \* concurrent callers only: each caller's create_task in flight

vars == <<impl, file, tasks, next_id, now, result, assigned, creating>>

----------------------------------------------------------------------------
(* Bounds and sentinels *)

\* Calls are made while now < MaxClock.
MaxClock == 4

\* Clock ticks per second: datetime.now() is finer than the "%S" of ISO_FMT.
TicksPerSecond == 2

None == "None"
NoneText == <<"None">>
NoDate == -1
ParseError == -2

ValidationError == "ValidationError"
TaskNotFoundError == "TaskNotFoundError"
ValueError == "ValueError"

----------------------------------------------------------------------------
(* models/task.py *)

TaskStatus == {"PENDING", "IN_PROGRESS", "DONE"}
TaskPriority == {"LOW", "MEDIUM", "HIGH"}

\* Task(...): the dataclass constructor with its defaults; TYPE is "Task".
Task(id, title, description, status, priority, tags, created_at) ==
    [id |-> id, title |-> title, description |-> description,
     status |-> status, priority |-> priority, tags |-> tags,
     created_at |-> created_at, TYPE |-> "Task", due_date |-> NoDate]

\* DeadlineTask(...): a Task with a due_date; TYPE is "DeadlineTask".
DeadlineTask(id, title, description, status, priority, tags, created_at, due_date) ==
    [id |-> id, title |-> title, description |-> description,
     status |-> status, priority |-> priority, tags |-> tags,
     created_at |-> created_at, TYPE |-> "DeadlineTask", due_date |-> due_date]

\* isinstance(t, DeadlineTask)
IsDeadlineTask(t) == t.TYPE = "DeadlineTask"

\* A placeholder where a call returns no task.
NoTask == Task(0, <<>>, NoneText, "PENDING", "MEDIUM", <<>>, 0)

\* datetime.strftime(ISO_FMT): whole seconds, the sub-second part is dropped.
Strftime(dt) == dt \div TicksPerSecond

\* _parse_dt on a string written by Strftime.
parse_dt(value) == value * TicksPerSecond

\* str(enum member) of a `class X(str, Enum)`: "X.MEMBER", not the value.
StrOfStatus(s) ==
    CASE s = "PENDING" -> "TaskStatus.PENDING"
      [] s = "IN_PROGRESS" -> "TaskStatus.IN_PROGRESS"
      [] s = "DONE" -> "TaskStatus.DONE"

StrOfPriority(p) ==
    CASE p = "LOW" -> "TaskPriority.LOW"
      [] p = "MEDIUM" -> "TaskPriority.MEDIUM"
      [] p = "HIGH" -> "TaskPriority.HIGH"

\* Task.to_dict / DeadlineTask.to_dict: asdict plus the overwritten keys.
\* A plain Task has no "due_date" key: NoDate stands for the missing key.
to_dict(t) ==
    [id |-> t.id, title |-> t.title, description |-> t.description,
     status |-> StrOfStatus(t.status), priority |-> StrOfPriority(t.priority),
     tags |-> t.tags, created_at |-> Strftime(t.created_at),
     TYPE |-> t.TYPE,
     due_date |-> IF IsDeadlineTask(t) THEN Strftime(t.due_date) ELSE NoDate,
     type |-> t.TYPE]

\* Whether Task.from_dict raises: TaskStatus(value) / TaskPriority(value)
\* raise ValueError for a string that is no member value.
from_dict_raises(d) == d.status \notin TaskStatus \/ d.priority \notin TaskPriority

\* Task.from_dict where it does not raise.
from_dict(d) ==
    IF d.type = "Task"
    THEN Task(d.id, d.title, d.description, d.status, d.priority, d.tags,
              parse_dt(d.created_at))
    ELSE DeadlineTask(d.id, d.title, d.description, d.status, d.priority, d.tags,
                      parse_dt(d.created_at),
                      IF d.due_date = NoDate THEN now ELSE parse_dt(d.due_date))

----------------------------------------------------------------------------
(* Strings *)

\* str.strip(): drop leading and trailing whitespace.
RECURSIVE LStrip(_)
LStrip(s) == IF s # <<>> /\ Head(s) = " " THEN LStrip(Tail(s)) ELSE s

RECURSIVE RStrip(_)
RStrip(s) ==
    IF s # <<>> /\ s[Len(s)] = " " THEN RStrip(SubSeq(s, 1, Len(s) - 1)) ELSE s

Strip(s) == RStrip(LStrip(s))

\* str.upper() on the words the callers pass.
Upper(s) ==
    CASE s = "low" -> "LOW"
      [] s = "medium" -> "MEDIUM"
      [] s = "high" -> "HIGH"
      [] s = "pending" -> "PENDING"
      [] s = "in_progress" -> "IN_PROGRESS"
      [] s = "done" -> "DONE"
      [] s = "Done" -> "DONE"
      [] s = "bogus" -> "BOGUS"
      [] OTHER -> s

\* The instants the accepted date strings denote, in seconds.
DateSeconds(tok) ==
    CASE tok = "2020-01-01" -> 0
      [] tok = "2030-01-01 10:00" -> 50

DateTokens == {"2020-01-01", "2030-01-01 10:00"}

\* The strptime formats, then fromisoformat: a date string, and nothing else,
\* parses; the result is a whole number of seconds.
Strptime(v) ==
    IF Len(v) = 1 /\ v[1] \in DateTokens
    THEN DateSeconds(v[1]) * TicksPerSecond
    ELSE ParseError

----------------------------------------------------------------------------
(* Parsing helpers of TaskService and TaskController *)

\* A default that falls on the lowest priority instead of MEDIUM.
parse_priority_default_low(value) ==
    IF value = None THEN "LOW"
    ELSE IF Upper(value) \in TaskPriority THEN Upper(value)
    ELSE ValidationError

parse_priority(value) ==
    IF value = None THEN "MEDIUM"
    ELSE IF Upper(value) \in TaskPriority THEN Upper(value)
    ELSE ValidationError

parse_status(value) ==
    IF value = None THEN "PENDING"
    ELSE IF Upper(value) \in TaskStatus THEN Upper(value)
    ELSE ValidationError

\* TaskService._parse_due: `if not value` catches None and "", but a
\* whitespace-only value goes on to the formats with v = "".
Service_parse_due(value) ==
    IF value = NoneText \/ value = <<>> THEN NoDate
    ELSE Strptime(Strip(value))

\* TaskController._parse_due: the stripped value is tested for "".
Controller_parse_due(value) ==
    IF value = NoneText THEN NoDate
    ELSE IF Strip(value) = <<>> THEN NoDate
    ELSE Strptime(Strip(value))

parse_due(i, value) ==
    IF i = "service" THEN Service_parse_due(value) ELSE Controller_parse_due(value)

----------------------------------------------------------------------------
(* create: the part TaskService.create_task and TaskController.create share *)

\* What create raises before it touches the store.
create_raises(i, a) ==
    \/ a.title = NoneText \/ a.title = <<>> \/ Strip(a.title) = <<>>
    \/ parse_priority(a.priority) = ValidationError
    \/ parse_due(i, a.due) = ParseError

\* description or None
DescOrNone(description) == IF description = <<>> THEN NoneText ELSE description

\* list(tags or [])
TagList(tags) == IF tags = NoneText THEN <<>> ELSE tags

\* The Task or DeadlineTask create builds under new_id at instant t.
new_task(i, new_id, a, t) ==
    IF parse_due(i, a.due) # NoDate
    THEN DeadlineTask(new_id, Strip(a.title), DescOrNone(a.description), "PENDING",
                      parse_priority(a.priority), TagList(a.tags), t,
                      parse_due(i, a.due))
    ELSE Task(new_id, Strip(a.title), DescOrNone(a.description), "PENDING",
              parse_priority(a.priority), TagList(a.tags), t)

----------------------------------------------------------------------------
(* update: the part TaskService.update_task and TaskController.update share *)

\* A slip: the supplied title is taken as it is, not stripped.
new_title_unstripped(task, a) == IF a.title # NoneText THEN a.title ELSE task.title

new_title(task, a) == IF a.title # NoneText THEN Strip(a.title) ELSE task.title

\* A slip: an absent description overwrites the stored one.
new_desc_overwrite(task, a) == a.description

new_desc(task, a) ==
    IF a.description # NoneText THEN a.description ELSE task.description

new_prio(task, a) ==
    IF a.priority # None THEN parse_priority(a.priority) ELSE task.priority

new_status(task, a) ==
    IF a.status # None THEN parse_status(a.status) ELSE task.status

new_tags(task, a) == IF a.tags # NoneText THEN a.tags ELSE task.tags

\* What update raises once the task is loaded, before it stores anything.
update_raises(i, task, a) ==
    \/ new_title(task, a) = <<>>
    \/ new_prio(task, a) = ValidationError
    \/ new_status(task, a) = ValidationError
    \/ (a.due # NoneText /\ parse_due(i, a.due) = ParseError)

\* A demotion that only drops the date and leaves the class as it was.
switch_type_keep_class(i, task, a) ==
    IF a.due = NoneText THEN task
    ELSE IF parse_due(i, a.due) # NoDate /\ ~IsDeadlineTask(task)
    THEN DeadlineTask(task.id, task.title, task.description, task.status,
                      task.priority, task.tags, task.created_at, parse_due(i, a.due))
    ELSE IF parse_due(i, a.due) = NoDate /\ IsDeadlineTask(task)
    THEN [task EXCEPT !.due_date = NoDate]
    ELSE task

\* "handle due date and type switch if needed"
switch_type(i, task, a) ==
    IF a.due = NoneText THEN task
    ELSE IF parse_due(i, a.due) # NoDate /\ ~IsDeadlineTask(task)
    THEN DeadlineTask(task.id, task.title, task.description, task.status,
                      task.priority, task.tags, task.created_at, parse_due(i, a.due))
    ELSE IF parse_due(i, a.due) = NoDate /\ IsDeadlineTask(task)
    THEN Task(task.id, task.title, task.description, task.status,
              task.priority, task.tags, task.created_at)
    ELSE task

\* "apply field updates": dataclasses.replace keeps every other field.
apply_fields(switched, task, a) ==
    [switched EXCEPT !.title = new_title(task, a),
                     !.description = new_desc(task, a),
                     !.priority = new_prio(task, a),
                     !.status = new_status(task, a),
                     !.tags = new_tags(task, a)]

\* "apply due change if applicable"
apply_due(i, updated, a) ==
    IF IsDeadlineTask(updated) /\ a.due # NoneText /\ parse_due(i, a.due) # NoDate
    THEN [updated EXCEPT !.due_date = parse_due(i, a.due)]
    ELSE updated

\* The record update stores in place of task.
updated_task(i, task, a) == apply_due(i, apply_fields(switch_type(i, task, a), task, a), a)

\* replace(task, status=new_status)
with_status(task, st) == [task EXCEPT !.status = st]

----------------------------------------------------------------------------
(* list: the filters and sort keys TaskService.list_tasks and                *)
(* TaskController.list share                                                *)

\* str.lower() on a character and on a text.
LowerCh(c) ==
    CASE c = "A" -> "a"
      [] c = "B" -> "b"
      [] c = "D" -> "d"
      [] OTHER -> c

Lower(s) == [k \in DOMAIN s |-> LowerCh(s[k])]

\* str.lower() on a sort key.
LowerWord(s) ==
    CASE s = "ID" -> "id"
      [] s = "Priority" -> "priority"
      [] OTHER -> s

\* needle in hay
Contains(hay, needle) ==
    \E k \in 0..(Len(hay) - Len(needle)) : SubSeq(hay, k + 1, k + Len(needle)) = needle

\* Python truthiness of an optional string argument.
Truthy(value) == value # None /\ value # ""
TruthyText(value) == value # NoneText /\ value # <<>>

SortKeys == {"id", "created", "priority", "due", "title"}

\* What list raises: a bad status or priority filter, an unknown sort key.
list_raises(a) ==
    \/ (Truthy(a.status) /\ parse_status(a.status) = ValidationError)
    \/ (Truthy(a.priority) /\ parse_priority(a.priority) = ValidationError)
    \/ (Truthy(a.sort) /\ LowerWord(a.sort) \notin SortKeys)

\* An overdue filter that forgets the status: a finished task counts as late.
passes_overdue_any_status(task, a, t) ==
    /\ Truthy(a.status) => task.status = parse_status(a.status)
    /\ Truthy(a.priority) => task.priority = parse_priority(a.priority)
    /\ Truthy(a.tag) => \E k \in DOMAIN task.tags : task.tags[k] = a.tag
    /\ TruthyText(a.search) =>
          \/ Contains(Lower(task.title), Lower(a.search))
          \/ Contains(Lower(IF task.description = NoneText THEN <<>> ELSE task.description),
                      Lower(a.search))
    /\ a.overdue => (IsDeadlineTask(task) /\ task.due_date < t)

\* The conjunction of the supplied filters, evaluated at instant t.
passes(task, a, t) ==
    /\ Truthy(a.status) => task.status = parse_status(a.status)
    /\ Truthy(a.priority) => task.priority = parse_priority(a.priority)
    /\ Truthy(a.tag) => \E k \in DOMAIN task.tags : task.tags[k] = a.tag
    /\ TruthyText(a.search) =>
          \/ Contains(Lower(task.title), Lower(a.search))
          \/ Contains(Lower(IF task.description = NoneText THEN <<>> ELSE task.description),
                      Lower(a.search))
    /\ a.overdue => (IsDeadlineTask(task) /\ task.status # "DONE" /\ task.due_date < t)

\* order = {HIGH: 0, MEDIUM: 1, LOW: 2}
PriorityOrder(p) == CASE p = "HIGH" -> 0 [] p = "MEDIUM" -> 1 [] p = "LOW" -> 2

\* Code points of the characters titles are made of.
Ord(c) == CASE c = " " -> 32 [] c = "A" -> 65 [] c = "B" -> 66 [] c = "a" -> 97
            [] c = "b" -> 98 [] OTHER -> 100

\* s < t for strings.
RECURSIVE TextLess(_, _)
TextLess(s, t) ==
    IF t = <<>> THEN FALSE
    ELSE IF s = <<>> THEN TRUE
    ELSE IF Head(s) # Head(t) THEN Ord(Head(s)) < Ord(Head(t))
    ELSE TextLess(Tail(s), Tail(t))

\* datetime.max stands in for the due date a plain Task lacks.
DatetimeMax == 1000000

due_key(t) == IF IsDeadlineTask(t) THEN t.due_date ELSE DatetimeMax

\* key(x) < key(y) under sort key `key`.
KeyLess(key, x, y) ==
    CASE key = "id" -> x.id < y.id
      [] key = "created" -> x.created_at < y.created_at
      [] key = "priority" -> PriorityOrder(x.priority) < PriorityOrder(y.priority)
      [] key = "due" -> due_key(x) < due_key(y)
      [] key = "title" -> TextLess(Lower(x.title), Lower(y.title))

\* list.sort(key=...) is stable: x goes before the first element greater than it.
RECURSIVE InsertSorted(_, _, _)
InsertSorted(key, s, x) ==
    IF s = <<>> THEN <<x>>
    ELSE IF KeyLess(key, x, Head(s)) THEN <<x>> \o s
    ELSE <<Head(s)>> \o InsertSorted(key, Tail(s), x)

RECURSIVE SortTasks(_, _)
SortTasks(key, s) ==
    IF s = <<>> THEN <<>>
    ELSE InsertSorted(key, SortTasks(key, SubSeq(s, 1, Len(s) - 1)), s[Len(s)])

\* The filtered, then sorted, list of `all` at instant t.
list_of(all, a, t) ==
    IF Truthy(a.sort)
    THEN SortTasks(LowerWord(a.sort), SelectSeq(all, LAMBDA x : passes(x, a, t)))
    ELSE SelectSeq(all, LAMBDA x : passes(x, a, t))

\* stats: one count per enum value, zero included.
CountWhere(all, Test(_)) == Len(SelectSeq(all, Test))

stats_of(all) ==
    [total |-> Len(all),
     by_status |-> [st \in TaskStatus |-> CountWhere(all, LAMBDA x : x.status = st)],
     by_priority |-> [pr \in TaskPriority |-> CountWhere(all, LAMBDA x : x.priority = pr)]]

NoStats == stats_of(<<>>)

----------------------------------------------------------------------------
(* Calls and their outcomes *)

NoArgs ==
    [title |-> NoneText, description |-> NoneText, priority |-> None,
     due |-> NoneText, status |-> None, tags |-> NoneText,
     tag |-> None, overdue |-> FALSE, search |-> NoneText, sort |-> None]

\* What a call returned (kind = "ok") or raised (kind = the exception).
Outcome(kind, task, flag, list, stats) ==
    [kind |-> kind, task |-> task, flag |-> flag, list |-> list, stats |-> stats]

Raised(kind) == Outcome(kind, NoTask, FALSE, <<>>, NoStats)
ReturnedTask(task) == Outcome("ok", task, FALSE, <<>>, NoStats)
ReturnedFlag(flag) == Outcome("ok", NoTask, flag, <<>>, NoStats)
ReturnedList(list) == Outcome("ok", NoTask, FALSE, list, NoStats)
ReturnedStats(stats) == Outcome("ok", NoTask, FALSE, <<>>, stats)
ReturnedNone == Outcome("ok", NoTask, FALSE, <<>>, NoStats)

\* No call is in progress: the caller has taken the last result.
Idle == [op |-> "none", id |-> 0, args |-> NoArgs, out |-> ReturnedNone]

----------------------------------------------------------------------------
(* repository/task_repository.py: `f` is the list _read_all_raw returns *)

SetMax(S) == CHOOSE x \in S : \A y \in S : y <= x

RepoIds(f) == {f[k].id : k \in DOMAIN f}

\* A slip: the maximum id itself, not one more.
repo_next_id_no_increment(f) == IF f = <<>> THEN 1 ELSE SetMax(RepoIds(f))

\* max(id) + 1, or 1 when max() of the empty list raises ValueError.
repo_next_id(f) == IF f = <<>> THEN 1 ELSE SetMax(RepoIds(f)) + 1

repo_add(f, task) == Append(f, to_dict(task))

\* The first record with this id, 0 when there is none.
repo_find(f, task_id) ==
    IF task_id \in RepoIds(f)
    THEN CHOOSE k \in DOMAIN f :
            f[k].id = task_id /\ \A j \in 1..(k - 1) : f[j].id # task_id
    ELSE 0

repo_update(f, task) == [f EXCEPT ![repo_find(f, task.id)] = to_dict(task)]

repo_delete(f, task_id) == SelectSeq(f, LAMBDA d : d.id # task_id)

repo_clear(f) == <<>>

\* list_all: from_dict on every record; it raises if one of them does.
repo_list_all_raises(f) == \E k \in DOMAIN f : from_dict_raises(f[k])

repo_list_all(f) == [k \in DOMAIN f |-> from_dict(f[k])]

\* get: TaskNotFoundError, or what from_dict raises, or "ok".
repo_get_kind(f, task_id) ==
    IF repo_find(f, task_id) = 0 THEN TaskNotFoundError
    ELSE IF from_dict_raises(f[repo_find(f, task_id)]) THEN ValueError
    ELSE "ok"

repo_get(f, task_id) == from_dict(f[repo_find(f, task_id)])

----------------------------------------------------------------------------
(* service/task_service.py: each operation gives its outcome and the file *)

SvcResult(out, f) == [out |-> out, file |-> f]

Service_create_task(f, a, t) ==
    IF create_raises("service", a) THEN SvcResult(Raised(ValidationError), f)
    ELSE LET task == new_task("service", repo_next_id(f), a, t)
         IN  SvcResult(ReturnedTask(task), repo_add(f, task))

Service_list_tasks(f, a, t) ==
    IF repo_list_all_raises(f) THEN SvcResult(Raised(ValueError), f)
    ELSE IF list_raises(a) THEN SvcResult(Raised(ValidationError), f)
    ELSE SvcResult(ReturnedList(list_of(repo_list_all(f), a, t)), f)

Service_get_task(f, task_id) ==
    IF repo_get_kind(f, task_id) # "ok" THEN SvcResult(Raised(repo_get_kind(f, task_id)), f)
    ELSE SvcResult(ReturnedTask(repo_get(f, task_id)), f)

Service_update_task(f, task_id, a) ==
    IF repo_get_kind(f, task_id) # "ok" THEN SvcResult(Raised(repo_get_kind(f, task_id)), f)
    ELSE IF update_raises("service", repo_get(f, task_id), a)
    THEN SvcResult(Raised(ValidationError), f)
    ELSE LET updated == updated_task("service", repo_get(f, task_id), a)
         IN  SvcResult(ReturnedTask(updated), repo_update(f, updated))

Service_set_status(f, task_id, status) ==
    IF repo_get_kind(f, task_id) # "ok" THEN SvcResult(Raised(repo_get_kind(f, task_id)), f)
    ELSE IF parse_status(status) = ValidationError
    THEN SvcResult(Raised(ValidationError), f)
    ELSE LET task == with_status(repo_get(f, task_id), parse_status(status))
         IN  SvcResult(ReturnedTask(task), repo_update(f, task))

Service_complete_task(f, task_id) == Service_set_status(f, task_id, "DONE")

\* A slip: the file is rewritten and True returned without comparing lengths.
Service_delete_task_unchecked(f, task_id) ==
    SvcResult(ReturnedFlag(TRUE), repo_delete(f, task_id))

Service_delete_task(f, task_id) ==
    IF Len(repo_delete(f, task_id)) = Len(f) THEN SvcResult(ReturnedFlag(FALSE), f)
    ELSE SvcResult(ReturnedFlag(TRUE), repo_delete(f, task_id))

Service_clear_tasks(f) == SvcResult(ReturnedNone, repo_clear(f))

Service_stats(f) ==
    IF repo_list_all_raises(f) THEN SvcResult(Raised(ValueError), f)
    ELSE SvcResult(ReturnedStats(stats_of(repo_list_all(f))), f)

----------------------------------------------------------------------------
(* controller/task_controller.py: `ts` is _tasks, `nid` is _next_id *)

CtlResult(out, ts, nid) == [out |-> out, tasks |-> ts, next_id |-> nid]

LiveIds(ts) == {ts[k].id : k \in DOMAIN ts}

\* The position of key task_id in the dict, 0 when it is no key.
dict_find(ts, task_id) ==
    IF task_id \in LiveIds(ts) THEN CHOOSE k \in DOMAIN ts : ts[k].id = task_id ELSE 0

\* self._tasks[task.id] = task: a known key keeps its place, a new one goes last.
dict_set(ts, task) ==
    IF dict_find(ts, task.id) = 0 THEN Append(ts, task)
    ELSE [ts EXCEPT ![dict_find(ts, task.id)] = task]

\* self._tasks.pop(task_id, None)
dict_pop(ts, task_id) == SelectSeq(ts, LAMBDA x : x.id # task_id)

\* self._tasks.clear(): _next_id is not touched.
dict_clear(ts) == <<>>

Controller_create(ts, nid, a, t) ==
    IF create_raises("controller", a) THEN CtlResult(Raised(ValidationError), ts, nid)
    ELSE LET task == new_task("controller", nid, a, t)
         IN  CtlResult(ReturnedTask(task), dict_set(ts, task), nid + 1)

Controller_list(ts, nid, a, t) ==
    IF list_raises(a) THEN CtlResult(Raised(ValidationError), ts, nid)
    ELSE CtlResult(ReturnedList(list_of(ts, a, t)), ts, nid)

Controller_get(ts, nid, task_id) ==
    IF dict_find(ts, task_id) = 0 THEN CtlResult(Raised(TaskNotFoundError), ts, nid)
    ELSE CtlResult(ReturnedTask(ts[dict_find(ts, task_id)]), ts, nid)

\* A slip: the new title is stored before the other arguments are parsed.
Controller_update_partial(ts, nid, task_id, a) ==
    IF dict_find(ts, task_id) = 0 THEN CtlResult(Raised(TaskNotFoundError), ts, nid)
    ELSE IF update_raises("controller", ts[dict_find(ts, task_id)], a)
    THEN CtlResult(Raised(ValidationError),
                   IF new_title(ts[dict_find(ts, task_id)], a) # <<>>
                   THEN dict_set(ts, [ts[dict_find(ts, task_id)] EXCEPT
                                         !.title = new_title(ts[dict_find(ts, task_id)], a)])
                   ELSE ts,
                   nid)
    ELSE LET updated == updated_task("controller", ts[dict_find(ts, task_id)], a)
         IN  CtlResult(ReturnedTask(updated), dict_set(ts, updated), nid)

Controller_update(ts, nid, task_id, a) ==
    IF dict_find(ts, task_id) = 0 THEN CtlResult(Raised(TaskNotFoundError), ts, nid)
    ELSE IF update_raises("controller", ts[dict_find(ts, task_id)], a)
    THEN CtlResult(Raised(ValidationError), ts, nid)
    ELSE LET updated == updated_task("controller", ts[dict_find(ts, task_id)], a)
         IN  CtlResult(ReturnedTask(updated), dict_set(ts, updated), nid)

Controller_set_status(ts, nid, task_id, status) ==
    IF dict_find(ts, task_id) = 0 THEN CtlResult(Raised(TaskNotFoundError), ts, nid)
    ELSE IF parse_status(status) = ValidationError
    THEN CtlResult(Raised(ValidationError), ts, nid)
    ELSE LET task == with_status(ts[dict_find(ts, task_id)], parse_status(status))
         IN  CtlResult(ReturnedTask(task), dict_set(ts, task), nid)

Controller_complete(ts, nid, task_id) == Controller_set_status(ts, nid, task_id, "DONE")

Controller_delete(ts, nid, task_id) ==
    CtlResult(ReturnedFlag(dict_find(ts, task_id) # 0), dict_pop(ts, task_id), nid)

Controller_clear(ts, nid) == CtlResult(ReturnedNone, dict_clear(ts), nid)

Controller_stats(ts, nid) == CtlResult(ReturnedStats(stats_of(ts)), ts, nid)

----------------------------------------------------------------------------
(* The arguments callers pass *)

TitleArgs == {<<>>, <<" ">>, <<"a">>, <<" ", "B", " ">>}
DescArgs == {<<>>, <<"d">>}
PriorityArgs == {"high", "bogus"}
DueArgs == {<<>>, <<" ">>, <<"2020-01-01">>, <<" ", "2030-01-01 10:00">>, <<"tomorrow">>}
StatusArgs == {"done", "in_progress", "bogus"}
TagsArgs == {<<>>, <<"x">>}

\* Calls that supply exactly one optional argument.
OneOptional ==
    {[NoArgs EXCEPT !.description = d] : d \in DescArgs}
    \cup {[NoArgs EXCEPT !.priority = p] : p \in PriorityArgs}
    \cup {[NoArgs EXCEPT !.due = d] : d \in DueArgs}
    \cup {[NoArgs EXCEPT !.tags = t] : t \in TagsArgs}

\* create: a title (absent, empty, blank, plain, padded) alone, or a good
\* title with one optional argument, or every argument at once.
CreateArgs ==
    {[NoArgs EXCEPT !.title = t] : t \in TitleArgs \cup {NoneText}}
    \cup {[a EXCEPT !.title = <<"a">>] : a \in OneOptional}
    \cup {[NoArgs EXCEPT !.title = <<" ", "B", " ">>, !.description = <<"d">>,
                         !.priority = "high", !.due = <<"2020-01-01">>,
                         !.tags = <<"x">>]}

\* update: nothing, one argument, or a new title together with one other.
UpdateOne ==
    OneOptional
    \cup {[NoArgs EXCEPT !.title = t] : t \in TitleArgs}
    \cup {[NoArgs EXCEPT !.status = st] : st \in StatusArgs}

UpdateArgs ==
    {NoArgs} \cup UpdateOne
    \cup {[a EXCEPT !.title = <<" ", "B", " ">>] : a \in UpdateOne}

\* list: no filter, one filter, or a sort key.
ListArgs ==
    {NoArgs}
    \cup {[NoArgs EXCEPT !.status = st] : st \in {"", "done", "bogus"}}
    \cup {[NoArgs EXCEPT !.priority = p] : p \in {"high", "bogus"}}
    \cup {[NoArgs EXCEPT !.tag = "x"], [NoArgs EXCEPT !.overdue = TRUE],
          [NoArgs EXCEPT !.search = <<"b">>]}
    \cup {[NoArgs EXCEPT !.sort = k] : k \in {"ID", "priority", "due", "title", "created", "bogus"}}

\* The ids callers ask for: every id a create can have assigned, and one more.
IdArgs == 1..MaxClock

----------------------------------------------------------------------------
(* The state machine: one caller, one call at a time *)

\* The callers of the concurrent specification.
Callers == {"c1", "c2"}

\* A caller that has not called create_task yet.
NotCreating == [pc |-> "start", task |-> NoTask, items |-> <<>>]

Init ==
    /\ impl \in {"service", "controller"}
    /\ file = <<>>
    /\ tasks = <<>>
    /\ next_id = 1
    /\ now = 1
    /\ result = Idle
    /\ assigned = {}
    /\ creating = [c \in Callers |-> NotCreating]

\* The caller may call: the last result is taken and the clock has room.
CanCall(i) == impl = i /\ result = Idle /\ now < MaxClock

\* The ids handed out once call `op` has ended with outcome `out`.
Assigned(op, out) ==
    IF op = "create" /\ out.kind = "ok" THEN assigned \cup {out.task.id} ELSE assigned

\* A call on the service returned or raised.
ServiceCall(op, task_id, a, r) ==
    /\ result' = [op |-> op, id |-> task_id, args |-> a, out |-> r.out]
    /\ assigned' = Assigned(op, r.out)
    /\ file' = r.file
    /\ now' = now + 1
    /\ UNCHANGED <<impl, tasks, next_id, creating>>

\* A call on the controller returned or raised.
ControllerCall(op, task_id, a, r) ==
    /\ result' = [op |-> op, id |-> task_id, args |-> a, out |-> r.out]
    /\ assigned' = Assigned(op, r.out)
    /\ tasks' = r.tasks
    /\ next_id' = r.next_id
    /\ now' = now + 1
    /\ UNCHANGED <<impl, file, creating>>

ServiceCreate ==
    /\ CanCall("service")
    /\ \E a \in CreateArgs : ServiceCall("create", 0, a, Service_create_task(file, a, now))

ServiceList ==
    /\ CanCall("service")
    /\ \E a \in ListArgs : ServiceCall("list", 0, a, Service_list_tasks(file, a, now))

ServiceGet ==
    /\ CanCall("service")
    /\ \E k \in IdArgs : ServiceCall("get", k, NoArgs, Service_get_task(file, k))

ServiceUpdate ==
    /\ CanCall("service")
    /\ \E k \in IdArgs, a \in UpdateArgs :
          ServiceCall("update", k, a, Service_update_task(file, k, a))

ServiceSetStatus ==
    /\ CanCall("service")
    /\ \E k \in IdArgs, st \in StatusArgs \cup {None} :
          ServiceCall("set_status", k, [NoArgs EXCEPT !.status = st],
                      Service_set_status(file, k, st))

ServiceComplete ==
    /\ CanCall("service")
    /\ \E k \in IdArgs : ServiceCall("complete", k, NoArgs, Service_complete_task(file, k))

ServiceDelete ==
    /\ CanCall("service")
    /\ \E k \in IdArgs : ServiceCall("delete", k, NoArgs, Service_delete_task(file, k))

ServiceClear ==
    /\ CanCall("service")
    /\ ServiceCall("clear", 0, NoArgs, Service_clear_tasks(file))

ServiceStats ==
    /\ CanCall("service")
    /\ ServiceCall("stats", 0, NoArgs, Service_stats(file))

ControllerCreate ==
    /\ CanCall("controller")
    /\ \E a \in CreateArgs :
          ControllerCall("create", 0, a, Controller_create(tasks, next_id, a, now))

ControllerList ==
    /\ CanCall("controller")
    /\ \E a \in ListArgs :
          ControllerCall("list", 0, a, Controller_list(tasks, next_id, a, now))

ControllerGet ==
    /\ CanCall("controller")
    /\ \E k \in IdArgs : ControllerCall("get", k, NoArgs, Controller_get(tasks, next_id, k))

ControllerUpdate ==
    /\ CanCall("controller")
    /\ \E k \in IdArgs, a \in UpdateArgs :
          ControllerCall("update", k, a, Controller_update(tasks, next_id, k, a))

ControllerSetStatus ==
    /\ CanCall("controller")
    /\ \E k \in IdArgs, st \in StatusArgs \cup {None} :
          ControllerCall("set_status", k, [NoArgs EXCEPT !.status = st],
                         Controller_set_status(tasks, next_id, k, st))

ControllerComplete ==
    /\ CanCall("controller")
    /\ \E k \in IdArgs :
          ControllerCall("complete", k, NoArgs, Controller_complete(tasks, next_id, k))

ControllerDelete ==
    /\ CanCall("controller")
    /\ \E k \in IdArgs :
          ControllerCall("delete", k, NoArgs, Controller_delete(tasks, next_id, k))

ControllerClear ==
    /\ CanCall("controller")
    /\ ControllerCall("clear", 0, NoArgs, Controller_clear(tasks, next_id))

ControllerStats ==
    /\ CanCall("controller")
    /\ ControllerCall("stats", 0, NoArgs, Controller_stats(tasks, next_id))

\* The caller takes the result of the last call.
Return ==
    /\ result # Idle
    /\ result' = Idle
    /\ UNCHANGED <<impl, file, tasks, next_id, now, assigned, creating>>

Next ==
    \/ ServiceCreate \/ ServiceList \/ ServiceGet \/ ServiceUpdate
    \/ ServiceSetStatus \/ ServiceComplete \/ ServiceDelete \/ ServiceClear
    \/ ServiceStats
    \/ ControllerCreate \/ ControllerList \/ ControllerGet \/ ControllerUpdate
    \/ ControllerSetStatus \/ ControllerComplete \/ ControllerDelete
    \/ ControllerClear \/ ControllerStats
    \/ Return

Spec == Init /\ [][Next]_vars

----------------------------------------------------------------------------
(* Concurrent callers of TaskService.create_task on one repository file.    *)
(* Nothing in create_task or TaskRepository takes a lock, so the reads and  *)
(* the write of the file are separate steps: next_id reads it, add reads it *)
(* again and then writes it.                                                *)

\* The file when the callers start: empty, or holding one task.
InitialFiles ==
    {<<>>, <<to_dict(Task(1, <<"a">>, NoneText, "PENDING", "MEDIUM", <<>>, 0))>>}

InitConc ==
    /\ impl = "service"
    /\ file \in InitialFiles
    /\ tasks = <<>>
    /\ next_id = 1
    /\ now = 1
    /\ result = Idle
    /\ assigned = {}
    /\ creating = [c \in Callers |-> NotCreating]

\* A repository that reserved ids: the ids calls in flight hold are skipped.
Service_new_id_reserving(f, held) == SetMax(RepoIds(f) \cup held \cup {0}) + 1

\* The id create_task takes for its task: next_id of the file as it is now,
\* whatever ids the calls of other callers hold.
Service_new_id(f, held) == repo_next_id(f)

\* The ids held by the calls in flight of callers other than c.
HeldIds(c) ==
    {creating[d].task.id : d \in {x \in Callers \ {c} : creating[x].pc # "start"}}

\* create_task up to the construction of the task: the arguments are
\* validated, next_id reads the file, the task is built.
ConcNextId(c) ==
    /\ creating[c].pc = "start"
    /\ \E a \in CreateArgs :
          /\ ~create_raises("service", a)
          /\ creating' = [creating EXCEPT ![c] =
                [pc |-> "got_id",
                 task |-> new_task("service", Service_new_id(file, HeldIds(c)), a, now),
                 items |-> <<>>]]
    /\ now' = now + 1
    /\ UNCHANGED <<impl, file, tasks, next_id, result, assigned>>

\* repo.add, first half: items = self._read_all_raw()
ConcAddRead(c) ==
    /\ creating[c].pc = "got_id"
    /\ creating' = [creating EXCEPT ![c].pc = "adding", ![c].items = file]
    /\ UNCHANGED <<impl, file, tasks, next_id, now, result, assigned>>

\* repo.add, second half: items.append(task.to_dict()); self._write_all_raw(items)
ConcAddWrite(c) ==
    /\ creating[c].pc = "adding"
    /\ file' = Append(creating[c].items, to_dict(creating[c].task))
    /\ creating' = [creating EXCEPT ![c].pc = "done"]
    /\ UNCHANGED <<impl, tasks, next_id, now, result, assigned>>

NextConc == \E c \in Callers : ConcNextId(c) \/ ConcAddRead(c) \/ ConcAddWrite(c)

SpecConc == InitConc /\ [][NextConc]_vars

----------------------------------------------------------------------------
(* Observations the properties are stated in *)

\* The stored collection of the stack in use; both kinds of record carry
\* id, title, description, status, priority, tags, created_at, TYPE, due_date.
Store == IF impl = "service" THEN file ELSE tasks

IdsOf(st) == [k \in DOMAIN st |-> st[k].id]

UniqueIds(st) == \A j, k \in DOMAIN st : j # k => st[j].id # st[k].id

\* The position of the record with this id, 0 when there is none.
PosOf(st, task_id) ==
    IF \E k \in DOMAIN st : st[k].id = task_id
    THEN CHOOSE k \in DOMAIN st : st[k].id = task_id
    ELSE 0

Failures == {ValidationError, TaskNotFoundError}

\* The calls that replace a stored record.
Replacing == {"update", "set_status", "complete"}

----------------------------------------------------------------------------
(* Properties *)

\* C1: with a single caller no two stored tasks ever share an id, and update,
\* set_status and complete leave the id of every stored record, and so of the
\* one they replace, as it was; the task they return has the id asked for.
C1_IdsUniqueAndImmutable ==
    [][/\ UniqueIds(file') /\ UniqueIds(tasks')
       /\ result'.op \in Replacing =>
             /\ IdsOf(file') = IdsOf(file)
             /\ IdsOf(tasks') = IdsOf(tasks)
             /\ result'.out.kind = "ok" => result'.out.task.id = result'.id]_vars

\* An update has replaced one of two stored tasks.
C1_Witness ==
    /\ result.op = "update" /\ result.out.kind = "ok"
    /\ Len(Store) = 2
    /\ result.args.title # NoneText
    /\ Store[PosOf(Store, result.id)].title = <<"B">>

\* C2: the id a create assigns is greater than every id assigned before it,
\* the ids of deleted tasks included.
C2_IdsNeverReused ==
    [][(result'.op = "create" /\ result'.out.kind = "ok") =>
          \A x \in assigned : result'.out.task.id > x]_vars

\* C3: a call that raises ValidationError or TaskNotFoundError leaves the
\* stored collection exactly as it was.
C3_FailureLeavesStore ==
    [][result'.out.kind \in Failures => (file' = file /\ tasks' = tasks)]_vars

\* An update with a good new title and a bad priority was refused on a stored
\* task whose title differs from the new one.
C3_Witness ==
    /\ result.op = "update" /\ result.out.kind = ValidationError
    /\ result.args.title = <<" ", "B", " ">> /\ result.args.priority = "bogus"
    /\ PosOf(Store, result.id) # 0
    /\ Store[PosOf(Store, result.id)].title = <<"a">>

\* The form a task takes in the store of the stack in use.
StoredForm(t) == IF impl = "service" THEN to_dict(t) ELSE t

\* A stored datetime, in the store's own units.
StoredDate(dt) == IF impl = "service" THEN Strftime(dt) ELSE dt

\* Every field but the variant and the due date is the same in old and new.
Carried(old, new) ==
    /\ new.id = old.id /\ new.title = old.title
    /\ new.description = old.description /\ new.status = old.status
    /\ new.priority = old.priority /\ new.tags = old.tags
    /\ new.created_at = old.created_at

\* The call supplied a due argument and nothing else.
OnlyDue(a) == a.due # NoneText /\ a = [NoArgs EXCEPT !.due = a.due]

\* A due string that one of the accepted formats parses.
ConcreteDate(due) == due # NoneText /\ Strptime(Strip(due)) # ParseError

\* None, the empty string or a whitespace-only string.
BlankDue(due) == due = NoneText \/ Strip(due) = <<>>

\* C4: update(id, due="") on a stored DeadlineTask stores a plain Task with no
\* due date, update(id, due=<date>) on a stored plain Task stores a
\* DeadlineTask with that due date; the stored record is the returned one and
\* every other field is carried over.
C4_DueSwitchesVariant ==
    [][(/\ result'.op = "update"
        /\ PosOf(Store, result'.id) # 0
        /\ OnlyDue(result'.args)) =>
          LET p == PosOf(Store, result'.id)
              old == Store[p]
              new == Store'[p]
              due == result'.args.due
          IN  /\ (due = <<>> /\ old.TYPE = "DeadlineTask") =>
                    /\ result'.out.kind = "ok"
                    /\ new = StoredForm(result'.out.task)
                    /\ new.TYPE = "Task" /\ new.due_date = NoDate
                    /\ Carried(old, new)
              /\ (ConcreteDate(due) /\ old.TYPE = "Task") =>
                    /\ result'.out.kind = "ok"
                    /\ new = StoredForm(result'.out.task)
                    /\ new.TYPE = "DeadlineTask"
                    /\ new.due_date = StoredDate(Strptime(Strip(due)))
                    /\ Carried(old, new)]_vars

\* The arguments of a create or update other than due are acceptable.
OthersGood(op, a) ==
    /\ IF op = "create"
       THEN a.title # NoneText /\ Strip(a.title) # <<>>
       ELSE a.title = NoneText \/ Strip(a.title) # <<>>
    /\ parse_priority(a.priority) # ValidationError
    /\ parse_status(a.status) # ValidationError

\* C5: in create and update a due of None, "" or whitespace only is "no due
\* date" and raises nothing; a ValidationError for the due argument comes only
\* from a non-blank value that no accepted format parses.
C5_BlankDueIsNoDue ==
    [][(/\ result'.op \in {"create", "update"}
        /\ OthersGood(result'.op, result'.args)
        /\ result'.op = "update" => PosOf(Store, result'.id) # 0
        /\ result'.out.kind \notin {TaskNotFoundError, ValueError}) =>
          /\ BlankDue(result'.args.due) => result'.out.kind = "ok"
          /\ (BlankDue(result'.args.due) /\ result'.op = "create") =>
                (result'.out.task.TYPE = "Task" /\ result'.out.task.due_date = NoDate)
          /\ result'.out.kind = ValidationError =>
                (~BlankDue(result'.args.due) /\ ~ConcreteDate(result'.args.due))]_vars

\* The id the next create would assign.
NextIdToAssign == IF impl = "service" THEN repo_next_id(file) ELSE next_id

\* What list() with no filter would return now.
ListNoFilter ==
    IF impl = "service"
    THEN Service_list_tasks(file, NoArgs, now).out
    ELSE Controller_list(tasks, next_id, NoArgs, now).out

\* C6: right after clear, list() with no filter returns the empty sequence and
\* the next id to be assigned is 1.
C6_ClearResets ==
    result.op = "clear" =>
        /\ ListNoFilter.kind = "ok" /\ ListNoFilter.list = <<>>
        /\ NextIdToAssign = 1

\* C8: delete of an id that is not stored returns False and leaves the store
\* as it was; delete of a stored id returns True and removes that record and
\* no other; get of an id that is not stored raises TaskNotFoundError.
C8_DeleteAndGetAbsent ==
    [][/\ result'.op = "delete" =>
             /\ result'.out.kind = "ok"
             /\ IF PosOf(Store, result'.id) = 0
                THEN result'.out.flag = FALSE /\ Store' = Store
                ELSE /\ result'.out.flag = TRUE
                     /\ Store' = SelectSeq(Store, LAMBDA x : x.id # result'.id)
                     /\ Len(Store') = Len(Store) - 1
       /\ (result'.op = "get" /\ PosOf(Store, result'.id) = 0) =>
             result'.out.kind = TaskNotFoundError]_vars

\* A delete has removed one of two stored tasks.
C8_Witness ==
    /\ result.op = "delete" /\ result.out.flag = TRUE
    /\ Len(Store) = 1 /\ Store[1].id # result.id
    /\ Cardinality(assigned) = 2

\* C9: a successful update keeps every field whose argument is absent;
\* update, set_status and complete keep created_at and leave every other
\* stored task as it was.
C9_UpdateFrame ==
    [][(result'.op \in Replacing /\ result'.out.kind = "ok") =>
          LET p == PosOf(Store, result'.id)
              old == Store[p]
              new == Store'[p]
              a == result'.args
          IN  /\ Len(Store') = Len(Store)
              /\ \A j \in DOMAIN Store : j # p => Store'[j] = Store[j]
              /\ new.created_at = old.created_at
              /\ result'.op = "update" =>
                    /\ a.title = NoneText => new.title = old.title
                    /\ a.description = NoneText => new.description = old.description
                    /\ a.priority = None => new.priority = old.priority
                    /\ a.status = None => new.status = old.status
                    /\ a.tags = NoneText => new.tags = old.tags
                    /\ a.due = NoneText =>
                          (new.due_date = old.due_date /\ new.TYPE = old.TYPE)]_vars

\* An update that supplied only a title has replaced one of two stored tasks,
\* and the replaced task still has its description, priority, tags and due date.
C9_Witness ==
    /\ result.op = "update" /\ result.out.kind = "ok"
    /\ result.args = [NoArgs EXCEPT !.title = <<"a">>]
    /\ Len(Store) = 2
    /\ LET new == Store[PosOf(Store, result.id)]
       IN  /\ new.title = <<"a">> /\ new.description = <<"d">>
           /\ new.priority = "HIGH" /\ new.tags = <<"x">>
           /\ new.TYPE = "DeadlineTask" /\ new.due_date # NoDate

TitlesGood(st) ==
    \A k \in DOMAIN st : st[k].title # <<>> /\ Strip(st[k].title) = st[k].title

\* None, the empty string or a whitespace-only string.
BlankTitle(title) == title = NoneText \/ Strip(title) = <<>>

\* C10: every stored title is non-empty and equal to its stripped form; create
\* raises ValidationError for a missing or blank title; update refuses an
\* empty or blank title it is given and keeps the title when given none.
C10_TitleNeverBlank ==
    [][/\ TitlesGood(file') /\ TitlesGood(tasks')
       /\ (result'.op = "create" /\ BlankTitle(result'.args.title)) =>
             (result'.out.kind = ValidationError /\ Store' = Store)
       /\ (result'.op = "update" /\ result'.args.title # NoneText
              /\ BlankTitle(result'.args.title)) =>
             (result'.out.kind # "ok" /\ Store' = Store)
       /\ (result'.op = "update" /\ result'.args.title = NoneText
              /\ result'.out.kind = "ok") =>
             Store'[PosOf(Store, result'.id)].title
                = Store[PosOf(Store, result'.id)].title]_vars

\* An update with a whitespace-only title was refused on a stored task.
C10_Witness ==
    /\ result.op = "update" /\ result.args.title = <<" ">>
    /\ result.out.kind = ValidationError
    /\ PosOf(Store, result.id) # 0

\* C7: two create calls that have both read next_id before either has called
\* add hold the same id.
C7_InterleavedCreatesShareId ==
    \A c, d \in Callers :
        (creating[c].pc = "got_id" /\ creating[d].pc = "got_id") =>
            creating[c].task.id = creating[d].task.id

\* Both calls have returned and the file holds their two records under one id.
C7_Witness ==
    /\ \A c \in Callers : creating[c].pc = "done"
    /\ \E j, k \in DOMAIN file : j # k /\ file[j].id = file[k].id

----------------------------------------------------------------------------
(* Variant and due date                                                     *)

\* The discriminator and the due date of a serialized task agree.
TypeMatchesDue(d) ==
    /\ d.type \in {"Task", "DeadlineTask"}
    /\ d.type = "DeadlineTask" <=> d.due_date # NoDate

\* C11: a stored task is a DeadlineTask exactly when it carries a due date,
\* and the serialized form of every stored task has a type that is
\* "DeadlineTask" exactly when it has a due_date and "Task" otherwise.
C11_VariantIffDue ==
    /\ \A k \in DOMAIN tasks :
        /\ IsDeadlineTask(tasks[k]) <=> tasks[k].due_date # NoDate
        /\ TypeMatchesDue(to_dict(tasks[k]))
    /\ \A k \in DOMAIN file : TypeMatchesDue(file[k])

\* An update with a due argument has just replaced a record, and the store
\* holds a task of each variant.
C11_Witness ==
    /\ result.op = "update"
    /\ result.out.kind = "ok"
    /\ result.args.due # NoneText
    /\ \E j, k \in DOMAIN tasks :
        IsDeadlineTask(tasks[j]) /\ ~IsDeadlineTask(tasks[k])

----------------------------------------------------------------------------
(* list over a populated store: the store starts with up to MaxListLen      *)
(* tasks that create, and on the controller complete, have left there, and  *)
(* one list call is made with any combination of the filters and a sort key *)

MaxListLen == 2

\* The create calls that left the stored tasks: plain, matching the search in
\* the title or in the description, of each priority, tagged, dated in the
\* past and in the future, and one with every argument.
ShapeArgs ==
    {[NoArgs EXCEPT !.title = <<"a">>],
     [NoArgs EXCEPT !.title = <<"B">>],
     [NoArgs EXCEPT !.title = <<"a">>, !.description = <<"b">>],
     [NoArgs EXCEPT !.title = <<"a">>, !.priority = "high"],
     [NoArgs EXCEPT !.title = <<"a">>, !.priority = "low"],
     [NoArgs EXCEPT !.title = <<"a">>, !.tags = <<"x">>],
     [NoArgs EXCEPT !.title = <<"a">>, !.due = <<"2020-01-01">>],
     [NoArgs EXCEPT !.title = <<"a">>, !.due = <<" ", "2030-01-01 10:00">>],
     [NoArgs EXCEPT !.title = <<" ", "B", " ">>, !.description = <<"d">>,
                    !.priority = "high", !.due = <<"2020-01-01">>,
                    !.tags = <<"x">>]}

\* The created tasks a later complete call has marked DONE.
DoneShapeArgs ==
    {[NoArgs EXCEPT !.title = <<"a">>],
     [NoArgs EXCEPT !.title = <<"a">>, !.due = <<"2020-01-01">>],
     [NoArgs EXCEPT !.title = <<" ", "B", " ">>, !.description = <<"d">>,
                    !.priority = "high", !.due = <<"2020-01-01">>,
                    !.tags = <<"x">>]}

\* The tasks a store of implementation i can hold, id and creation instant
\* left open. On the service set_status never gets to store a DONE task.
Shapes(i) ==
    {new_task(i, 0, a, 0) : a \in ShapeArgs}
    \cup (IF i = "controller"
          THEN {with_status(new_task(i, 0, a, 0), "DONE") : a \in DoneShapeArgs}
          ELSE {})

\* The k-th task created: ids and creation instants count up from 1.
Populated(sh) == [k \in DOMAIN sh |-> [sh[k] EXCEPT !.id = k, !.created_at = k]]

\* list: every combination of the five filters, unsorted or sorted.
QueryArgs ==
    {[NoArgs EXCEPT !.status = st, !.priority = p, !.tag = g, !.search = q,
                    !.overdue = o, !.sort = k] :
        st \in {None, "pending", "done"}, p \in {None, "high"}, g \in {None, "x"},
        q \in {NoneText, <<"b">>}, o \in BOOLEAN, k \in {None, "priority", "due"}}

InitList ==
    /\ impl \in {"service", "controller"}
    /\ \E n \in 0..MaxListLen :
        \E sh \in [1..n -> Shapes(impl)] :
            /\ tasks = (IF impl = "controller" THEN Populated(sh) ELSE <<>>)
            /\ file = (IF impl = "service"
                       THEN [k \in 1..n |-> to_dict(Populated(sh)[k])]
                       ELSE <<>>)
            /\ next_id = (IF impl = "controller" THEN n + 1 ELSE 1)
            /\ now = n + 1
            /\ assigned = 1..n
    /\ result = Idle
    /\ creating = [c \in Callers |-> NotCreating]

ServiceQuery ==
    /\ impl = "service"
    /\ result = Idle
    /\ \E a \in QueryArgs : ServiceCall("list", 0, a, Service_list_tasks(file, a, now))

ControllerQuery ==
    /\ impl = "controller"
    /\ result = Idle
    /\ \E a \in QueryArgs :
          ControllerCall("list", 0, a, Controller_list(tasks, next_id, a, now))

NextList == ServiceQuery \/ ControllerQuery

SpecList == InitList /\ [][NextList]_vars

\* The tasks the store holds, as list reads them.
StoredTasks ==
    IF impl = "controller" THEN {tasks[k] : k \in DOMAIN tasks}
    ELSE {from_dict(file[k]) : k \in {j \in DOMAIN file : ~from_dict_raises(file[j])}}

\* The instant the call in `result` was made.
CalledAt == now - 1

\* C12: whatever filters are supplied, every task list returns is a stored
\* task and has the status and the priority asked for, carries the tag,
\* contains the search text in its title or description whatever the case,
\* and, under overdue, has a due date before the call, and is not DONE.
C12_ListedTasksPassFilters ==
    (result.op = "list" /\ result.out.kind = "ok") =>
        \A k \in DOMAIN result.out.list :
            LET t == result.out.list[k]
                a == result.args
            IN  /\ t \in StoredTasks
                /\ Truthy(a.status) => t.status = Upper(a.status)
                /\ Truthy(a.priority) => t.priority = Upper(a.priority)
                /\ Truthy(a.tag) => a.tag \in {t.tags[j] : j \in DOMAIN t.tags}
                /\ TruthyText(a.search) =>
                      \/ Contains(Lower(t.title), Lower(a.search))
                      \/ /\ t.description # NoneText
                         /\ Contains(Lower(t.description), Lower(a.search))
                /\ a.overdue =>
                      /\ t.due_date # NoDate
                      /\ t.status # "DONE"
                      /\ t.due_date < CalledAt

\* A list call with all five filters returned one of two stored tasks.
C12_Witness ==
    /\ result.op = "list"
    /\ result.out.kind = "ok"
    /\ result.args.status = "pending" /\ Truthy(result.args.priority)
    /\ Truthy(result.args.tag) /\ TruthyText(result.args.search)
    /\ result.args.overdue
    /\ Len(result.out.list) = 1
    /\ Len(tasks) = 2

----------------------------------------------------------------------------
(* Sorting                                                                  *)

\* The stored tasks in repository order, as list reads them.
StoredList ==
    IF impl = "controller" THEN tasks
    ELSE IF repo_list_all_raises(file) THEN <<>>
    ELSE repo_list_all(file)

\* The stored tasks that pass the filters of the call in `result`, in
\* repository order.
FilteredList == list_of(StoredList, [result.args EXCEPT !.sort = None], CalledAt)

\* list was called with sort key `key` and filters that parse.
ListSortedBy(key) ==
    /\ result.op = "list"
    /\ Truthy(result.args.sort)
    /\ LowerWord(result.args.sort) = key
    /\ Truthy(result.args.status) => Upper(result.args.status) \in TaskStatus
    /\ Truthy(result.args.priority) => Upper(result.args.priority) \in TaskPriority

\* s holds the elements of u, each once.
IsPermutation(s, u) ==
    /\ Len(s) = Len(u)
    /\ \A k \in DOMAIN u : \E j \in DOMAIN s : s[j] = u[k]
    /\ \A j, k \in DOMAIN s : s[j] = s[k] => j = k

\* HIGH first, then MEDIUM, then LOW.
PriorityRank(p) == CASE p = "HIGH" -> 1 [] p = "MEDIUM" -> 2 [] p = "LOW" -> 3

\* Where task x stands in sequence u.
IndexIn(u, x) == CHOOSE k \in DOMAIN u : u[k] = x

\* C13: list with sort=priority returns the filtered tasks, HIGH before
\* MEDIUM before LOW, tasks of equal priority in repository order.
C13_PrioritySortStable ==
    ListSortedBy("priority") =>
        /\ result.out.kind = "ok"
        /\ IsPermutation(result.out.list, FilteredList)
        /\ \A j, k \in DOMAIN result.out.list :
              j < k =>
                LET x == result.out.list[j]
                    y == result.out.list[k]
                IN  /\ PriorityRank(x.priority) <= PriorityRank(y.priority)
                    /\ x.priority = y.priority =>
                          IndexIn(FilteredList, x) < IndexIn(FilteredList, y)

\* C14: list with sort=due returns a permutation of the filtered tasks: no
\* task without a due date stands before a task with one, and the due dates
\* of the dated tasks ascend.
C14_DueSortDatedFirst ==
    ListSortedBy("due") =>
        /\ result.out.kind = "ok"
        /\ IsPermutation(result.out.list, FilteredList)
        /\ \A j, k \in DOMAIN result.out.list :
              j < k =>
                LET x == result.out.list[j]
                    y == result.out.list[k]
                IN  /\ x.due_date = NoDate => y.due_date = NoDate
                    /\ (x.due_date # NoDate /\ y.due_date # NoDate) =>
                          x.due_date <= y.due_date

----------------------------------------------------------------------------
(* stats                                                                    *)

\* What stats() gives when called in the current state.
StatsNow ==
    IF impl = "service" THEN Service_stats(file).out
    ELSE Controller_stats(tasks, next_id).out

\* The sum of the counts of map `counts`.
RECURSIVE SumOf(_, _)
SumOf(counts, keys) ==
    IF keys = {} THEN 0
    ELSE LET k == CHOOSE x \in keys : TRUE
         IN  counts[k] + SumOf(counts, keys \ {k})

\* C15: in every reachable state stats returns a total equal to the number
\* of stored tasks, to the sum of by_status and to the sum of by_priority,
\* and each map has every enum value as a key.
C15_StatsCountEachTaskOnce ==
    /\ StatsNow.kind = "ok"
    /\ StatsNow.stats.total = Len(Store)
    /\ DOMAIN StatsNow.stats.by_status = TaskStatus
    /\ DOMAIN StatsNow.stats.by_priority = TaskPriority
    /\ SumOf(StatsNow.stats.by_status, TaskStatus) = StatsNow.stats.total
    /\ SumOf(StatsNow.stats.by_priority, TaskPriority) = StatsNow.stats.total

----------------------------------------------------------------------------
(* Round trip through the persisted form                                    *)

\* The task the call in `result` created or produced by update.
Produced == result.op \in {"create", "update"} /\ result.out.kind = "ok"

\* C16: every task create or update produces parses back from its persisted
\* form to an identical task: from_dict(to_dict(task)) = task.
C16_RoundTrip ==
    Produced =>
        /\ ~from_dict_raises(to_dict(result.out.task))
        /\ from_dict(to_dict(result.out.task)) = result.out.task

----------------------------------------------------------------------------
(* create with a title alone                                                *)

\* The call in `result` was create with no argument but the title.
TitleOnly(r) == r.op = "create" /\ r.args = [NoArgs EXCEPT !.title = r.args.title]

\* C17: a create call with only a title that succeeds returns a plain Task
\* with status PENDING, priority MEDIUM, no tags and no due date, under an
\* id no stored task has; it is stored after the tasks already there, and
\* those stay as they were.
C17_TitleOnlyCreateDefaults ==
    [][(TitleOnly(result') /\ result'.out.kind = "ok") =>
          LET t == result'.out.task
          IN  /\ ~IsDeadlineTask(t)
              /\ t.status = "PENDING"
              /\ t.priority = "MEDIUM"
              /\ t.tags = <<>>
              /\ t.due_date = NoDate
              /\ PosOf(Store, t.id) = 0
              /\ Len(Store') = Len(Store) + 1
              /\ \A k \in DOMAIN Store : Store'[k] = Store[k]
              /\ Store'[Len(Store')].id = t.id]_vars

\* The service has stored a title-only task after an earlier one.
C17_Witness ==
    /\ impl = "service"
    /\ TitleOnly(result)
    /\ result.out.kind = "ok"
    /\ Len(file) = 2
    /\ file[2].id = result.out.task.id

----------------------------------------------------------------------------
(* The two implementations side by side: one caller makes every create,     *)
(* delete and clear call on a TaskService (state `file`) and on a           *)
(* TaskController (state `tasks`, `next_id`), both starting empty; `result` *)
(* holds what the service returned in `out` and what the controller         *)
(* returned in `twin`                                                       *)

InitBoth ==
    /\ impl = "both"
    /\ file = <<>>
    /\ tasks = <<>>
    /\ next_id = 1
    /\ now = 1
    /\ result = Idle
    /\ assigned = {}
    /\ creating = [c \in Callers |-> NotCreating]

\* The same call on the service (outcome s) and on the controller (outcome c).
BothCall(op, task_id, a, s, c) ==
    /\ result' = [op |-> op, id |-> task_id, args |-> a, out |-> s.out, twin |-> c.out]
    /\ assigned' = Assigned(op, s.out) \cup
                      (IF op = "create" /\ c.out.kind = "ok" THEN {c.out.task.id} ELSE {})
    /\ file' = s.file
    /\ tasks' = c.tasks
    /\ next_id' = c.next_id
    /\ now' = now + 1
    /\ UNCHANGED <<impl, creating>>

BothCreate ==
    /\ CanCall("both")
    /\ \E a \in CreateArgs :
          BothCall("create", 0, a, Service_create_task(file, a, now),
                   Controller_create(tasks, next_id, a, now))

BothDelete ==
    /\ CanCall("both")
    /\ \E k \in IdArgs :
          BothCall("delete", k, NoArgs, Service_delete_task(file, k),
                   Controller_delete(tasks, next_id, k))

BothClear ==
    /\ CanCall("both")
    /\ BothCall("clear", 0, NoArgs, Service_clear_tasks(file),
                Controller_clear(tasks, next_id))

NextBoth == BothCreate \/ BothDelete \/ BothClear \/ Return

SpecBoth == InitBoth /\ [][NextBoth]_vars

\* C18: after any sequence of create, delete and clear calls made on both
\* implementations from empty stores, both hold the same set of live ids,
\* and a create has returned the same id in both.
C18_SameIdsInBoth ==
    /\ RepoIds(file) = LiveIds(tasks)
    /\ result.op = "create" =>
          /\ result.out.kind = result.twin.kind
          /\ result.out.kind = "ok" => result.out.task.id = result.twin.task.id

====
